---- MODULE Spec2Model ----
(***************************************************************************)
(* Model of the MAXDP flow execution subsystem:                            *)
(*   - WorkerManager (app/core/maxdp_worker_manager.py): the cache of      *)
(*     FlowExecutor instances keyed by published-API id;                   *)
(*   - topological_sort / _find_cycle (app/utils/maxdp_dag_util.py);       *)
(*   - FlowExecutor (app/core/maxdp_flow_executor.py).                     *)
(* Three specifications share the variables: SpecWM, SpecDag, SpecExec.    *)
(***************************************************************************)
EXTENDS Integers, Sequences, FiniteSets, TLC

VARIABLES
    active_workers,  \* WorkerManager.active_workers: insertion-ordered dict, as a sequence of WorkerInfo
    worker_lock,     \* WorkerManager.worker_lock: "free" or the caller holding it
    now,             \* the value datetime.utcnow() returns
    pc,              \* per caller: position inside get_or_create_worker
    req,             \* per caller: str(published_api.id) of the call in progress (0: none)
    ret,             \* per caller: what the last call returned: an executor, NoExec or BuildError
    pcR,             \* cleanup_inactive_workers: "idle" or "sweep"
    current_time,    \* cleanup_inactive_workers: local current_time
    gen,             \* history: per api, FlowExecutors constructed since the api was last absent
    joint,           \* history: api for which two calls were in flight together while it was absent
    reaped,          \* history: per api, created_at of the entry the reaper removed (NoTime: none)
    scn,             \* history: progress through acquire(1),(2),(3),(2),(4); -1: off
    d_pc,            \* DAG utility: "off", "input", "sorted" or "built"
    d_nodes,         \* topological_sort argument nodes: the 'id' of each node, in declaration order
    d_edges,         \* topological_sort argument edges: [source, target], in declaration order
    d_iter,          \* the order in which Python iterates the set node_ids
    d_result,        \* what topological_sort returned or raised
    d_exec,          \* what FlowExecutor(flow_json) returned or raised
    d_groups,        \* what find_execution_groups returned or raised
    x_pc,            \* FlowExecutor: "off", "new", "invalid", "ready", "running", "done" or "failed"
    x_nodes,         \* flow_json['nodes']: [id, type, cfg], in declaration order
    x_edges,         \* flow_json['edges']: [source, target, sourceHandle, targetHandle]
    x_iter,          \* the order in which Python iterates the set of node ids
    x_input,         \* execute(input_data): a dict, as a sequence of [key, value]
    execution_order, \* FlowExecutor.execution_order
    x_idx,           \* position of `for node_id in self.execution_order`
    global_variables,\* FlowExecutionContext.global_variables
    node_outputs,    \* FlowExecutionContext.node_outputs (None where a key is absent)
    execution_log,   \* FlowExecutionContext.execution_log: the node_id of each entry
    final_result,    \* what execute returned
    x_error,         \* the node named by the FlowExecutionError execute raised
    x_invoked,       \* history: the nodes whose ainvoke was called, in call order
    x_raised,        \* history: the node whose ainvoke raised
    store,           \* DPA_PUBLISHED_APIS: per endpoint path, the record or NoRecord
    h_pc,            \* per request: position inside run_published_api
    h_path,          \* per request: api_endpoint
    h_body,          \* per request: what the request body decodes to
    h_api,           \* per request: published_api, the record read by _get_published_api
    h_data,          \* per request: request_data
    h_exec,          \* per request: the executor get_or_create_worker returned
    h_status,        \* per request: HTTP status of the response (0: none yet)
    h_seen,          \* per request: the db_session and user_context its nodes were given
    h_acquired,      \* history: per request, get_or_create_worker was called
    h_removed,        \* reload_worker: the api_id and what force_remove_worker returned
    sd_pc,           \* shutdown_worker_manager: "off", "up", "stopped" or "down"
    workers,         \* the queue workers that exist (processes running start_worker)
    priority_queue,  \* Redis sorted set maxdp:priority: the member tasks (score = priority)
    default_queue,   \* Redis list maxdp:default, leftmost first
    failed_queue,    \* Redis list maxdp:failed, leftmost first
    processing_queue,\* Redis list maxdp:processing, leftmost first
    w_pc,            \* per worker: "off", "idle", "read", "got", "handling", "returned", "raised";
                     \* of a start_worker call also "refused", "exited"
    w_task,          \* per worker: the task object in hand
    w_ret,           \* per worker: what the last process_task returned ("none": nothing yet)
    q_used,          \* history: the task ids handed to enqueue by producers
    q_calls,         \* history: per task id, the number of handler invocations
    q_last,          \* history: priority last read off the sorted set since the last zadd
    is_running       \* MaxDPQueueManager.is_running

wmVars == <<active_workers, worker_lock, now, pc, req, ret,
            pcR, current_time, gen, joint, reaped, scn>>

dagVars == <<d_pc, d_nodes, d_edges, d_iter, d_result, d_exec, d_groups>>

exVars == <<x_pc, x_nodes, x_edges, x_iter, x_input, execution_order, x_idx,
            global_variables, node_outputs, execution_log, final_result,
            x_error, x_invoked, x_raised>>

dpVars == <<store, h_pc, h_path, h_body, h_api, h_data, h_exec, h_status, h_seen,
            h_acquired, h_removed>>

sdVars == <<sd_pc>>

quVars == <<workers, priority_queue, default_queue, failed_queue, processing_queue,
            w_pc, w_task, w_ret, q_used, q_calls, q_last, is_running>>

\* the variables of dispatch, shutdown and the task queue
extVars == <<dpVars, sdVars, quVars>>

vars == <<wmVars, dagVars, exVars, extVars>>

-----------------------------------------------------------------------------
(* Bounds and configuration *)

MAX_ACTIVE_APIS == 2
API_INACTIVE_TTL_HOURS == 1
MaxTime == 2
MaxCount == 1
MaxEdges == 3

Apis == {1, 2, 3, 4}
Callers == {"c1", "c2"}

NoTime == -1
NoExec == [api |-> 0, flow |-> "none", serial |-> 0]
BuildError == [api |-> 0, flow |-> "error", serial |-> 0]

-----------------------------------------------------------------------------
(* Flow definitions a PublishedAPI record may carry *)

FlowNames == {"linear", "none"}

\* _create_new_worker: `not flow_json` raises, and so does a failing FlowExecutor(...)
FlowBuildsAlways(flow) == TRUE

FlowBuilds(flow) == flow # "none"

WMOff ==
    /\ active_workers = <<>>
    /\ worker_lock = "free"
    /\ now = 0
    /\ pc = [c \in Callers |-> "idle"]
    /\ req = [c \in Callers |-> 0]
    /\ ret = [c \in Callers |-> NoExec]
    /\ pcR = "idle"
    /\ current_time = NoTime
    /\ gen = [a \in Apis |-> 0]
    /\ joint = 0
    /\ reaped = [a \in Apis |-> NoTime]
    /\ scn = -1

Requests == {"r1", "r2"}
Paths == {"sales", "stock", "gone"}
NoRecord == [id |-> 0, is_active |-> FALSE, flow_definition |-> "none"]
NoSeen == [db_session |-> "", user_context |-> ""]
NoRemoval == [api_id |-> 0, removed |-> "none"]

DispatchOff ==
    /\ store = [p \in Paths |-> NoRecord]
    /\ h_pc = [r \in Requests |-> "off"]
    /\ h_path = [r \in Requests |-> ""]
    /\ h_body = [r \in Requests |-> ""]
    /\ h_api = [r \in Requests |-> NoRecord]
    /\ h_data = [r \in Requests |-> "none"]
    /\ h_exec = [r \in Requests |-> NoExec]
    /\ h_status = [r \in Requests |-> 0]
    /\ h_seen = [r \in Requests |-> NoSeen]
    /\ h_acquired = [r \in Requests |-> FALSE]
    /\ h_removed = NoRemoval

\* the components added after the first three are idle
ShutdownOff == sd_pc = "off"

WorkerIds == {"w1", "w2"}
TaskIds == {"t1", "t2", "t3"}
NoTask == [task_id |-> "", task_type |-> "", payload |-> "", priority |-> 0,
           retry_count |-> 0, max_retries |-> 0]

QueueOff ==
    /\ workers = {}
    /\ priority_queue = {}
    /\ default_queue = <<>>
    /\ failed_queue = <<>>
    /\ processing_queue = <<>>
    /\ w_pc = [w \in WorkerIds |-> "off"]
    /\ w_task = [w \in WorkerIds |-> NoTask]
    /\ w_ret = [w \in WorkerIds |-> "none"]
    /\ q_used = {}
    /\ q_calls = [t \in TaskIds |-> 0]
    /\ q_last = -1
    /\ is_running = FALSE

ExtOff == DispatchOff /\ ShutdownOff /\ QueueOff

NoNode == ""
NoFinal == [kind |-> "none"]

ExecOff ==
    /\ x_pc = "off"
    /\ x_nodes = <<>>
    /\ x_edges = <<>>
    /\ x_iter = <<>>
    /\ x_input = <<>>
    /\ execution_order = <<>>
    /\ x_idx = 0
    /\ global_variables = <<>>
    /\ node_outputs = <<>>
    /\ execution_log = <<>>
    /\ final_result = NoFinal
    /\ x_error = NoNode
    /\ x_invoked = <<>>
    /\ x_raised = NoNode

-----------------------------------------------------------------------------
(* DAG utility: topological_sort, _find_cycle, validate_dag_structure *)

NodeIds == {"A", "B", "C"}

Range(q) == {q[i] : i \in DOMAIN q}

SeqsUpTo(S, n) == UNION {[1..k -> S] : k \in 0..n}

\* the orders in which a set of ids can be iterated
Perms(S) == {q \in [1..Cardinality(S) -> S] : Range(q) = S}

Edge(u, v) == [source |-> u, target |-> v]

NoResult == [kind |-> "none", order |-> <<>>]
NoGroups == [kind |-> "none", groups |-> <<>>]

DagOff ==
    /\ d_pc = "off"
    /\ d_nodes = <<>>
    /\ d_edges = <<>>
    /\ d_iter = <<>>
    /\ d_result = NoResult
    /\ d_exec = NoResult
    /\ d_groups = NoGroups

\* graph[source]: the targets of the edges out of source, in edge order
Graph(edges, n) ==
    LET out == SelectSeq(edges, LAMBDA e : e.source = n)
    IN [i \in 1..Len(out) |-> out[i].target]

InDegreeBySource(ids, edges) ==
    [n \in ids |-> Cardinality({i \in DOMAIN edges : edges[i].source = n})]

InDegree(ids, edges) ==
    [n \in ids |-> Cardinality({i \in DOMAIN edges : edges[i].target = n})]

\* `if in_degree[neighbor] == 0`
Ready(d) == d = 0

\* for neighbor in graph[current_node]: decrement, enqueue at zero
RECURSIVE Relax(_, _, _)
Relax(nbrs, in_degree, queue) ==
    IF nbrs = <<>>
    THEN [queue |-> queue, in_degree |-> in_degree]
    ELSE LET n == Head(nbrs)
             deg == [in_degree EXCEPT ![n] = @ - 1]
         IN Relax(Tail(nbrs), deg, IF Ready(deg[n]) THEN Append(queue, n) ELSE queue)

\* while queue: popleft, append to result, relax the neighbours
RECURSIVE Kahn(_, _, _, _)
Kahn(queue, in_degree, result, edges) ==
    IF queue = <<>>
    THEN result
    ELSE LET current_node == Head(queue)
             r == Relax(Graph(edges, current_node), in_degree, Tail(queue))
         IN Kahn(r.queue, r.in_degree, Append(result, current_node), edges)

IndexIn(path, node) == CHOOSE i \in DOMAIN path : path[i] = node /\ \A j \in 1..(i - 1) : path[j] # node

CyclePathWhole(path, node) == Append(path, node)

\* path[cycle_start:] + [node]
CyclePath(path, node) == Append(SubSeq(path, IndexIn(path, node), Len(path)), node)

\* dfs of _find_cycle; rec_stack always holds the elements of path
RECURSIVE dfs(_, _, _, _, _)
RECURSIVE dfsNeighbors(_, _, _, _, _)
dfs(node, path, visited, edges, remaining_nodes) ==
    IF node \in Range(path)
    THEN [cycle |-> CyclePath(path, node), visited |-> visited]
    ELSE IF node \in visited
    THEN [cycle |-> <<>>, visited |-> visited]
    ELSE dfsNeighbors(Graph(edges, node), Append(path, node), visited \cup {node},
                      edges, remaining_nodes)

dfsNeighbors(nbrs, path, visited, edges, remaining_nodes) ==
    IF nbrs = <<>>
    THEN [cycle |-> <<>>, visited |-> visited]
    ELSE IF Head(nbrs) \in remaining_nodes
    THEN LET r == dfs(Head(nbrs), path, visited, edges, remaining_nodes)
         IN IF r.cycle # <<>>
            THEN r
            ELSE dfsNeighbors(Tail(nbrs), path, r.visited, edges, remaining_nodes)
    ELSE dfsNeighbors(Tail(nbrs), path, visited, edges, remaining_nodes)

\* for node in remaining_nodes: the first dfs that finds a cycle returns it
RECURSIVE FindCycleFrom(_, _, _, _)
FindCycleFrom(starts, visited, edges, remaining_nodes) ==
    IF starts = <<>>
    THEN <<>>
    ELSE IF Head(starts) \in visited
    THEN FindCycleFrom(Tail(starts), visited, edges, remaining_nodes)
    ELSE LET r == dfs(Head(starts), <<>>, visited, edges, remaining_nodes)
         IN IF r.cycle # <<>>
            THEN r.cycle
            ELSE FindCycleFrom(Tail(starts), r.visited, edges, remaining_nodes)

\* iter2: the order in which Python iterates the set remaining_nodes
_find_cycle(edges, remaining_nodes, iter2) ==
    LET c == FindCycleFrom(iter2, {}, edges, remaining_nodes)
    IN IF c # <<>> THEN c ELSE iter2

DuplicateIds(nodes) == \E i, j \in DOMAIN nodes : i < j /\ nodes[i] = nodes[j]

DanglingEdge(nodes, edges) ==
    \E i \in DOMAIN edges : edges[i].source \notin Range(nodes) \/ edges[i].target \notin Range(nodes)

\* iter: iteration order of node_ids; iter2: iteration order of remaining_nodes
topological_sort(nodes, edges, iter, iter2) ==
    IF DuplicateIds(nodes) \/ DanglingEdge(nodes, edges)
    THEN [kind |-> "validation", order |-> <<>>]
    ELSE LET node_ids == Range(nodes)
             in_degree == InDegree(node_ids, edges)
             queue == SelectSeq(iter, LAMBDA n : in_degree[n] = 0)
             result == Kahn(queue, in_degree, <<>>, edges)
         IN IF Len(result) # Cardinality(node_ids)
            THEN LET remaining_nodes == node_ids \ Range(result)
                 IN [kind |-> "cycle",
                     order |-> _find_cycle(edges, remaining_nodes,
                                           SelectSeq(iter2, LAMBDA n : n \in remaining_nodes))]
            ELSE [kind |-> "ok", order |-> result]

validate_dag_structure(nodes, edges, iter, iter2) ==
    /\ nodes # <<>>
    /\ topological_sort(nodes, edges, iter, iter2).kind = "ok"

FlowExecutorInitUnsorted(nodes, edges, iter, iter2) == [kind |-> "ok", order |-> nodes]

\* FlowExecutor.__init__: validation, then the execution order
FlowExecutorInit(nodes, edges, iter, iter2) ==
    IF ~validate_dag_structure(nodes, edges, iter, iter2)
    THEN [kind |-> "FlowValidationError", order |-> <<>>]
    ELSE LET r == topological_sort(nodes, edges, iter, iter2)
         IN IF r.kind = "ok"
            THEN [kind |-> "ok", order |-> r.order]
            ELSE [kind |-> "FlowValidationError", order |-> <<>>]

IterOrders(nodes) == IF DuplicateIds(nodes) THEN {<<>>} ELSE Perms(Range(nodes))

\* the sort collects the ids into a set before anything else: one declaration order
\* for each number of nodes, and the lists that declare an id twice
NodeLists ==
    {<<>>, <<"A">>, <<"A", "B">>, <<"A", "B", "C">>, <<"A", "A">>, <<"A", "B", "A">>}

InitDag ==
    /\ d_pc = "input"
    /\ d_nodes \in NodeLists
    /\ d_edges \in SeqsUpTo({Edge(u, v) : u, v \in NodeIds}, MaxEdges)
    /\ d_iter \in IterOrders(d_nodes)
    /\ d_result = NoResult
    /\ d_exec = NoResult
    /\ d_groups = NoGroups
    /\ WMOff
    /\ ExecOff
    /\ ExtOff

DagSort ==
    /\ d_pc = "input"
    /\ \E iter2 \in IterOrders(d_nodes) :
           d_result' = topological_sort(d_nodes, d_edges, d_iter, iter2)
    /\ d_pc' = "sorted"
    /\ UNCHANGED <<d_nodes, d_edges, d_iter, d_exec, d_groups>>
    /\ UNCHANGED <<wmVars, exVars, extVars>>

DagBuild ==
    /\ d_pc = "sorted"
    /\ \E iter2 \in IterOrders(d_nodes) :
           d_exec' = FlowExecutorInit(d_nodes, d_edges, d_iter, iter2)
    /\ d_pc' = "built"
    /\ UNCHANGED <<d_nodes, d_edges, d_iter, d_result, d_groups>>
    /\ UNCHANGED <<wmVars, exVars, extVars>>

LevelRelaxOnce(in_degree, current_level, edges) ==
    [n \in DOMAIN in_degree |->
        IF \E i \in DOMAIN edges : edges[i].source \in current_level /\ edges[i].target = n
        THEN in_degree[n] - 1 ELSE in_degree[n]]

\* for node_id in current_level: for neighbor in graph[node_id]: in_degree[neighbor] -= 1
LevelRelax(in_degree, current_level, edges) ==
    [n \in DOMAIN in_degree |->
        in_degree[n] - Cardinality({i \in DOMAIN edges :
                                      edges[i].source \in current_level /\ edges[i].target = n})]

\* the while loop of find_execution_groups
RECURSIVE Levels(_, _, _, _, _)
Levels(remaining_nodes, in_degree, execution_groups, edges, iter) ==
    IF remaining_nodes = {}
    THEN [kind |-> "ok", groups |-> execution_groups]
    ELSE LET current_level ==
                 SelectSeq(iter, LAMBDA n : n \in remaining_nodes /\ in_degree[n] = 0)
         IN IF current_level = <<>>
            THEN [kind |-> "cycle", groups |-> <<>>]
            ELSE Levels(remaining_nodes \ Range(current_level),
                        LevelRelax(in_degree, Range(current_level), edges),
                        Append(execution_groups, current_level), edges, iter)

\* in_degree is a defaultdict: every id an edge names has an entry
find_execution_groups(nodes, edges, iter) ==
    Levels(Range(nodes), InDegree(NodeIds, edges), <<>>, edges, iter)

DagGroups ==
    /\ d_pc = "input"
    /\ \E iter \in Perms(Range(d_nodes)) :
           d_groups' = find_execution_groups(d_nodes, d_edges, iter)
    /\ d_pc' = "grouped"
    /\ UNCHANGED <<d_nodes, d_edges, d_iter, d_result, d_exec>>
    /\ UNCHANGED <<wmVars, exVars, extVars>>

NextDag == DagSort \/ DagBuild \/ DagGroups

SpecDag == InitDag /\ [][NextDag]_vars

-----------------------------------------------------------------------------
(* WorkerManager *)

Keys(aw) == {aw[i].api_id : i \in DOMAIN aw}

IndexOf(aw, api) == CHOOSE i \in DOMAIN aw : aw[i].api_id = api

PopIndex(aw, i) == [j \in 1..(Len(aw) - 1) |-> IF j < i THEN aw[j] ELSE aw[j + 1]]

Pop(aw, api) == PopIndex(aw, IndexOf(aw, api))

WorkerInfo(api, executor, created_at) ==
    [api_id |-> api, executor |-> executor, created_at |-> created_at,
     last_used |-> created_at, execution_count |-> 0]

update_usage(w) ==
    [w EXCEPT !.last_used = now, !.execution_count = @ + 1]

LockIgnored == TRUE

LockFree == worker_lock = "free"

CapacityReachedOffByOne(n) == n > MAX_ACTIVE_APIS

CapacityReached(n) == n >= MAX_ACTIVE_APIS

FirstInsertedIndex(aw) == 1

\* min(keys, key=last_used): the first key in dict order among those of minimum last_used
OldestIndex(aw) ==
    CHOOSE i \in DOMAIN aw :
        /\ \A j \in DOMAIN aw : aw[i].last_used <= aw[j].last_used
        /\ \A j \in 1..(i - 1) : aw[j].last_used > aw[i].last_used

\* min() of an empty dict raises: only MAX_ACTIVE_APIS = 0 gets there
NeedsEviction(aw) == CapacityReached(Len(aw)) /\ Len(aw) > 0

_ensure_capacity(aw) ==
    IF NeedsEviction(aw) THEN PopIndex(aw, OldestIndex(aw)) ELSE aw

\* self.active_workers[api_id] = worker_info
DictSet(aw, w) ==
    IF w.api_id \in Keys(aw)
    THEN [aw EXCEPT ![IndexOf(aw, w.api_id)] = w]
    ELSE Append(aw, w)

ExpiredByCreation(cur, w) == cur - w.created_at > API_INACTIVE_TTL_HOURS

Expired(cur, w) == cur - w.last_used > API_INACTIVE_TTL_HOURS

ScnApis == <<1, 2, 3, 2, 4>>

\* the monitor advances when the expected api is acquired; the fourth acquire (the hit that
\* refreshes api 2) has to come at a later time than every last_used in the cache
ScnStep(api, aw) ==
    IF /\ scn >= 0
       /\ scn < Len(ScnApis)
       /\ api = ScnApis[scn + 1]
       /\ (scn = 3 => \A i \in DOMAIN aw : now > aw[i].last_used)
    THEN scn + 1
    ELSE -1

\* history reset for the apis that left the cache
Forget(h, aw, aw2, empty) ==
    [a \in Apis |-> IF a \in Keys(aw) \ Keys(aw2) THEN empty ELSE h[a]]

InitWM ==
    /\ active_workers = <<>>
    /\ worker_lock = "free"
    /\ now = 0
    /\ pc = [c \in Callers |-> "idle"]
    /\ req = [c \in Callers |-> 0]
    /\ ret = [c \in Callers |-> NoExec]
    /\ pcR = "idle"
    /\ current_time = NoTime
    /\ gen = [a \in Apis |-> 0]
    /\ joint = 0
    /\ reaped = [a \in Apis |-> NoTime]
    /\ scn = 0
    /\ DagOff
    /\ ExecOff
    /\ ExtOff

Tick ==
    /\ now < MaxTime
    /\ now' = now + 1
    /\ UNCHANGED <<dagVars, exVars, extVars>>
    /\ UNCHANGED <<active_workers, worker_lock, pc, req, ret,
                   pcR, current_time, gen, joint, reaped, scn>>

Pending(api) == Cardinality({d \in Callers : pc[d] = "called" /\ req[d] = api})

\* execution_count is capped at MaxCount: no call is issued that would push it further
CountRoom(api) ==
    IF api \in Keys(active_workers)
    THEN active_workers[IndexOf(active_workers, api)].execution_count + Pending(api) < MaxCount
    ELSE Pending(api) <= MaxCount

\* a request calls get_or_create_worker(published_api, ...) and reaches `with self.worker_lock`
GetOrCreateCall(c) ==
    /\ pc[c] = "idle"
    /\ \E api \in Apis :
           /\ CountRoom(api)
           /\ req' = [req EXCEPT ![c] = api]
           /\ joint' = IF /\ api \notin Keys(active_workers)
                          /\ \E d \in Callers \ {c} : pc[d] # "idle" /\ req[d] = api
                       THEN api ELSE 0
    /\ pc' = [pc EXCEPT ![c] = "called"]
    /\ ret' = [ret EXCEPT ![c] = NoExec]
    /\ UNCHANGED <<dagVars, exVars, extVars>>
    /\ UNCHANGED <<active_workers, worker_lock, now,
                   pcR, current_time, gen, reaped, scn>>

\* the lock is taken; a cached worker is reused, otherwise capacity is ensured
GetOrCreateLookup(c) ==
    /\ pc[c] = "called"
    /\ LockFree
    /\ LET api == req[c] IN
       IF api \in Keys(active_workers)
       THEN LET i == IndexOf(active_workers, api) IN
            /\ active_workers[i].execution_count < MaxCount
            /\ active_workers' = [active_workers EXCEPT ![i] = update_usage(@)]
            /\ ret' = [ret EXCEPT ![c] = active_workers[i].executor]
            /\ reaped' = [reaped EXCEPT ![api] = NoTime]
            /\ scn' = ScnStep(api, active_workers)
            /\ pc' = [pc EXCEPT ![c] = "idle"]
            /\ req' = [req EXCEPT ![c] = 0]
            /\ UNCHANGED <<worker_lock, gen>>
       ELSE /\ active_workers' = _ensure_capacity(active_workers)
            /\ gen' = Forget(gen, active_workers, active_workers', 0)
            /\ reaped' = Forget(reaped, active_workers, active_workers', NoTime)
            /\ worker_lock' = c
            /\ pc' = [pc EXCEPT ![c] = "create"]
            /\ UNCHANGED <<ret, req, scn>>
    /\ UNCHANGED <<dagVars, exVars, extVars>>
    /\ UNCHANGED <<now, pcR, current_time, joint>>

\* _create_new_worker on the record's flow_definition, the insertion, the release of the lock
GetOrCreateCreate(c) ==
    /\ pc[c] = "create"
    /\ \E flow \in FlowNames :
        LET api == req[c]
            executor == [api |-> api, flow |-> flow, serial |-> gen[api] + 1]
        IN
        IF FlowBuilds(flow)
        THEN /\ active_workers' = DictSet(active_workers, WorkerInfo(api, executor, now))
             /\ ret' = [ret EXCEPT ![c] = executor]
             /\ gen' = [gen EXCEPT ![api] = @ + 1]
             /\ scn' = ScnStep(api, active_workers)
        ELSE /\ ret' = [ret EXCEPT ![c] = BuildError]
             /\ scn' = -1
             /\ UNCHANGED <<active_workers, gen>>
    /\ worker_lock' = "free"
    /\ pc' = [pc EXCEPT ![c] = "idle"]
    /\ req' = [req EXCEPT ![c] = 0]
    /\ UNCHANGED <<dagVars, exVars, extVars>>
    /\ UNCHANGED <<now, pcR, current_time, joint, reaped>>

\* cleanup_inactive_workers reads current_time before it takes the lock
CleanupStart ==
    /\ pcR = "idle"
    /\ pcR' = "sweep"
    /\ current_time' = now
    /\ UNCHANGED <<dagVars, exVars, extVars>>
    /\ UNCHANGED <<active_workers, worker_lock, now, pc, req, ret,
                   gen, joint, reaped, scn>>

\* under the lock: collect the workers idle for longer than the TTL, then pop them
CleanupSweep ==
    /\ pcR = "sweep"
    /\ LockFree
    /\ LET workers_to_remove ==
               {active_workers[i].api_id :
                    i \in {j \in DOMAIN active_workers : Expired(current_time, active_workers[j])}}
       IN
       /\ active_workers' =
              SelectSeq(active_workers, LAMBDA w : w.api_id \notin workers_to_remove)
       /\ gen' = Forget(gen, active_workers, active_workers', 0)
       /\ reaped' = [a \in Apis |->
                        IF a \in workers_to_remove
                        THEN active_workers[IndexOf(active_workers, a)].created_at
                        ELSE reaped[a]]
       /\ scn' = IF workers_to_remove = {} THEN scn ELSE -1
    /\ pcR' = "idle"
    /\ current_time' = NoTime
    /\ UNCHANGED <<dagVars, exVars, extVars>>
    /\ UNCHANGED <<worker_lock, now, pc, req, ret, joint>>

force_remove_worker(api) ==
    /\ LockFree
    /\ api \in Keys(active_workers)
    /\ active_workers' = Pop(active_workers, api)
    /\ gen' = [gen EXCEPT ![api] = 0]
    /\ reaped' = [reaped EXCEPT ![api] = NoTime]
    /\ scn' = -1
    /\ UNCHANGED <<dagVars, exVars, extVars>>
    /\ UNCHANGED <<worker_lock, now, pc, req, ret, pcR, current_time, joint>>

clear_all_workers ==
    /\ LockFree
    /\ active_workers # <<>>
    /\ active_workers' = <<>>
    /\ gen' = [a \in Apis |-> 0]
    /\ reaped' = [a \in Apis |-> NoTime]
    /\ scn' = -1
    /\ UNCHANGED <<dagVars, exVars, extVars>>
    /\ UNCHANGED <<worker_lock, now, pc, req, ret, pcR, current_time, joint>>

NextWM ==
    \/ Tick
    \/ \E c \in Callers : GetOrCreateCall(c)
    \/ \E c \in Callers : GetOrCreateLookup(c)
    \/ \E c \in Callers : GetOrCreateCreate(c)
    \/ CleanupStart
    \/ CleanupSweep
    \/ \E api \in Apis : force_remove_worker(api)
    \/ clear_all_workers

SpecWM == InitWM /\ [][NextWM]_vars

-----------------------------------------------------------------------------
(* FlowExecutor: values, dicts and node behaviour *)

\* what a node returns: a DataFrame (named after the node that made it), a bool, None
None == [k |-> "None", v |-> ""]
Bool(b) == [k |-> "bool", v |-> IF b THEN "true" ELSE "false"]
Df(name) == [k |-> "DataFrame", v |-> name]
EmptyDf == Df("")
Str == [k |-> "str", v |-> "g"]
\* the node's invoke raised
Raise == [k |-> "raise", v |-> ""]

IsDataFrame(x) == x.k = "DataFrame"

\* d[key] = value on an insertion-ordered dict
DictPut(d, key, value) ==
    IF \E i \in DOMAIN d : d[i].key = key
    THEN [i \in DOMAIN d |-> IF d[i].key = key THEN [key |-> key, value |-> value] ELSE d[i]]
    ELSE Append(d, [key |-> key, value |-> value])

DictHas(d, key) == \E i \in DOMAIN d : d[i].key = key

\* d.update(e)
RECURSIVE DictUpdate(_, _)
DictUpdate(d, e) ==
    IF e = <<>> THEN d
    ELSE DictUpdate(DictPut(d, e[1].key, e[1].value), Tail(e))

\* d.setdefault(key, value)
DictSetDefault(d, key, value) == IF DictHas(d, key) THEN d ELSE DictPut(d, key, value)

NoHandle == "-"
Node(id, type, cfg) == [id |-> id, type |-> type, cfg |-> cfg]
HEdge(u, v, sh, th) == [source |-> u, target |-> v, sourceHandle |-> sh, targetHandle |-> th]

skip_types == {"maxdp_trigger", "maxdp_flow_parameter", "maxdp_set_get_variable", "maxdp_comment"}

SourceTypes == {"maxdp_static_data"}
TransformTypes == {"maxdp_select_columns"}
\* the node types of the registry that the flows below use
Registry == SourceTypes \cup TransformTypes \cup
            {"maxdp_display_results", "maxdp_conditional_branch", "maxdp_try_catch", "maxdp_merge"}

IdsOf(nodes) == [i \in DOMAIN nodes |-> nodes[i].id]
NodeOf(nodes, id) == nodes[CHOOSE i \in DOMAIN nodes : nodes[i].id = id]

\* the DataFrames among input.values(), in dict order
DataFrames(input) ==
    LET frames == SelectSeq(input, LAMBDA p : IsDataFrame(p.value))
    IN [i \in DOMAIN frames |-> frames[i].value]

\* what node.invoke(input) can do: the values it can return, or Raise
NodeOutcomes(node, input) ==
    LET frames == DataFrames(input)
        nonempty == SelectSeq(frames, LAMBDA d : d # EmptyDf)
    IN CASE node.type \in SourceTypes -> {Df(node.id), Raise}
         [] node.type \in TransformTypes ->
                IF frames = <<>> THEN {Raise} ELSE {Df(node.id), frames[1], Raise}
         [] node.type \in {"maxdp_display_results", "maxdp_try_catch"} ->
                IF frames = <<>> THEN {Raise} ELSE {frames[1]}
         [] node.type = "maxdp_conditional_branch" -> {Bool(TRUE), Bool(FALSE), Raise}
         [] node.type = "maxdp_merge" ->
                IF nonempty = <<>> THEN {EmptyDf} ELSE {nonempty[1], Df(node.id), Raise}

\* _process_global_nodes, one node
ProcessGlobalNode(node, g) ==
    CASE node.type = "maxdp_trigger" ->
             IF node.cfg = "" THEN g ELSE DictPut(g, node.cfg, Str)
      [] node.type = "maxdp_flow_parameter" ->
             IF node.cfg = "" THEN g ELSE DictSetDefault(g, node.cfg, Str)
      [] node.type = "maxdp_set_get_variable" ->
             IF node.cfg = "" THEN g ELSE DictPut(g, node.cfg, Str)
      [] OTHER -> g

RECURSIVE _process_global_nodes(_, _)
_process_global_nodes(nodes, g) ==
    IF nodes = <<>> THEN g
    ELSE _process_global_nodes(Tail(nodes), ProcessGlobalNode(nodes[1], g))

\* edge_map['inputs'][node_id]: the source of every edge into node_id, in edge order
EdgeInputs(edges, node_id) ==
    LET into == SelectSeq(edges, LAMBDA e : e.target = node_id)
    IN [i \in DOMAIN into |-> into[i].source]

\* edge_map['outputs'][node_id]
EdgeOutputs(edges, node_id) ==
    LET out == SelectSeq(edges, LAMBDA e : e.source = node_id)
    IN [i \in DOMAIN out |-> out[i].target]

_get_output_handle_name(edges, source_node_id, target_node_id) ==
    LET m == SelectSeq(edges, LAMBDA e : e.source = source_node_id /\ e.target = target_node_id)
    IN IF m = <<>> THEN source_node_id
       ELSE IF m[1].sourceHandle # NoHandle THEN m[1].sourceHandle
       ELSE IF m[1].targetHandle # NoHandle THEN m[1].targetHandle
       ELSE source_node_id

RECURSIVE CollectInputs(_, _, _, _, _)
CollectInputs(input_node_ids, input_data, edges, outputs, node_id) ==
    IF input_node_ids = <<>> THEN input_data
    ELSE LET output == outputs[input_node_ids[1]]
             next == IF output # None
                     THEN DictPut(input_data,
                                  _get_output_handle_name(edges, input_node_ids[1], node_id),
                                  output)
                     ELSE input_data
         IN CollectInputs(Tail(input_node_ids), next, edges, outputs, node_id)

_prepare_node_input(node_id, edges, outputs, globals) ==
    DictUpdate(CollectInputs(EdgeInputs(edges, node_id), <<>>, edges, outputs, node_id), globals)

\* output nodes first, then display nodes, then the last node of the order
_determine_final_result(order, nodes, edges, outputs) ==
    LET output_nodes == SelectSeq(order, LAMBDA n : EdgeOutputs(edges, n) = <<>>)
        display_nodes == SelectSeq(order,
                             LAMBDA n : NodeOf(nodes, n).type = "maxdp_display_results")
    IN IF Len(output_nodes) = 1
       THEN [kind |-> "value", value |-> outputs[output_nodes[1]]]
       ELSE IF Len(output_nodes) > 1
       THEN [kind |-> "dict",
             value |-> [i \in DOMAIN output_nodes |->
                           [key |-> output_nodes[i], value |-> outputs[output_nodes[i]]]]]
       ELSE IF display_nodes # <<>>
       THEN [kind |-> "value", value |-> outputs[display_nodes[Len(display_nodes)]]]
       ELSE IF order # <<>>
       THEN [kind |-> "value", value |-> outputs[order[Len(order)]]]
       ELSE [kind |-> "value", value |-> None]

add_node_output_frames_only(outputs, log, node_id, output) ==
    IF IsDataFrame(output)
    THEN [node_outputs |-> [outputs EXCEPT ![node_id] = output],
          execution_log |-> Append(log, node_id)]
    ELSE [node_outputs |-> outputs, execution_log |-> log]

\* FlowExecutionContext.add_node_output
add_node_output(outputs, log, node_id, output) ==
    [node_outputs |-> [outputs EXCEPT ![node_id] = output],
     execution_log |-> Append(log, node_id)]

NodeFailureSwallowed == "running"

\* `raise FlowExecutionError(...)` out of _execute_node and out of execute
NodeFailure == "failed"

-----------------------------------------------------------------------------
(* The flows executed *)

LinearFlow ==
    [nodes |-> <<Node("S", "maxdp_static_data", ""), Node("X", "maxdp_select_columns", ""),
                 Node("D", "maxdp_display_results", "")>>,
     edges |-> <<HEdge("S", "X", "out", "in"), HEdge("X", "D", NoHandle, NoHandle)>>]

TryCatchFlow ==
    [nodes |-> <<Node("S", "maxdp_static_data", ""), Node("T", "maxdp_try_catch", "return_input"),
                 Node("R", "maxdp_select_columns", ""), Node("D", "maxdp_display_results", "")>>,
     edges |-> <<HEdge("S", "T", NoHandle, NoHandle), HEdge("T", "R", NoHandle, NoHandle),
                 HEdge("R", "D", NoHandle, NoHandle)>>]

BranchFlow ==
    [nodes |-> <<Node("S", "maxdp_static_data", ""), Node("K", "maxdp_conditional_branch", ""),
                 Node("P", "maxdp_display_results", ""), Node("Q", "maxdp_display_results", "")>>,
     edges |-> <<HEdge("S", "K", NoHandle, NoHandle), HEdge("K", "P", "true", NoHandle),
                 HEdge("K", "Q", "false", NoHandle)>>]

GateFlow ==
    [nodes |-> <<Node("S", "maxdp_static_data", ""), Node("K", "maxdp_conditional_branch", ""),
                 Node("D", "maxdp_display_results", "")>>,
     edges |-> <<HEdge("S", "K", NoHandle, NoHandle), HEdge("S", "D", NoHandle, "in")>>]

UtilityFlow ==
    [nodes |-> <<Node("G", "maxdp_trigger", "trig"), Node("F", "maxdp_flow_parameter", "out"),
                 Node("S", "maxdp_static_data", ""), Node("D", "maxdp_display_results", "")>>,
     edges |-> <<HEdge("G", "S", NoHandle, NoHandle), HEdge("S", "D", NoHandle, NoHandle)>>]

VariableFlow ==
    [nodes |-> <<Node("V", "maxdp_set_get_variable", "S"), Node("C", "maxdp_comment", ""),
                 Node("S", "maxdp_static_data", ""), Node("D", "maxdp_display_results", "")>>,
     edges |-> <<HEdge("S", "D", NoHandle, NoHandle)>>]

UnknownFlow ==
    [nodes |-> <<Node("S", "maxdp_static_data", ""), Node("U", "maxdp_unknown", ""),
                 Node("D", "maxdp_display_results", "")>>,
     edges |-> <<HEdge("S", "U", NoHandle, NoHandle), HEdge("U", "D", NoHandle, NoHandle)>>]

MergeFlow ==
    [nodes |-> <<Node("S", "maxdp_static_data", ""), Node("Z", "maxdp_static_data", ""),
                 Node("M", "maxdp_merge", ""), Node("D", "maxdp_display_results", "")>>,
     edges |-> <<HEdge("S", "M", NoHandle, "a"), HEdge("Z", "M", NoHandle, "b"),
                 HEdge("M", "D", NoHandle, NoHandle)>>]

\* one table joined with itself: two edges between the same pair of nodes
SelfJoinFlow ==
    [nodes |-> <<Node("S", "maxdp_static_data", ""), Node("M", "maxdp_merge", ""),
                 Node("D", "maxdp_display_results", "")>>,
     edges |-> <<HEdge("S", "M", NoHandle, "left"), HEdge("S", "M", NoHandle, "right"),
                 HEdge("M", "D", NoHandle, NoHandle)>>]

\* declared sink first
ReversedFlow ==
    [nodes |-> <<Node("D", "maxdp_display_results", ""), Node("X", "maxdp_select_columns", ""),
                 Node("S", "maxdp_static_data", "")>>,
     edges |-> <<HEdge("X", "D", NoHandle, NoHandle), HEdge("S", "X", NoHandle, NoHandle)>>]

CyclicFlow ==
    [nodes |-> <<Node("S", "maxdp_static_data", ""), Node("X", "maxdp_select_columns", "")>>,
     edges |-> <<HEdge("S", "X", NoHandle, NoHandle), HEdge("X", "S", NoHandle, NoHandle)>>]

ExecFlows == {LinearFlow, TryCatchFlow, BranchFlow, GateFlow, UtilityFlow, VariableFlow,
              UnknownFlow, MergeFlow, SelfJoinFlow, ReversedFlow, CyclicFlow}

\* execute(input_data): nothing, or a key that is also a handle name
ExecInputs == {<<>>, <<[key |-> "out", value |-> Str]>>}

-----------------------------------------------------------------------------
(* FlowExecutor: construction and execute *)

InitExec ==
    /\ x_pc = "new"
    /\ \E f \in ExecFlows : x_nodes = f.nodes /\ x_edges = f.edges
    /\ x_iter \in Perms(Range(IdsOf(x_nodes)))
    /\ x_input \in ExecInputs
    /\ execution_order = <<>>
    /\ x_idx = 0
    /\ global_variables = <<>>
    /\ node_outputs = <<>>
    /\ execution_log = <<>>
    /\ final_result = NoFinal
    /\ x_error = NoNode
    /\ x_invoked = <<>>
    /\ x_raised = NoNode
    /\ WMOff
    /\ DagOff
    /\ ExtOff

\* FlowExecutor.__init__
ExecConstruct ==
    /\ x_pc = "new"
    /\ LET r == FlowExecutorInit(IdsOf(x_nodes), x_edges, x_iter, x_iter)
       IN IF r.kind = "ok"
          THEN x_pc' = "ready" /\ execution_order' = r.order
          ELSE x_pc' = "invalid" /\ UNCHANGED execution_order
    /\ UNCHANGED <<x_nodes, x_edges, x_iter, x_input, x_idx, global_variables, node_outputs,
                   execution_log, final_result, x_error, x_invoked, x_raised>>
    /\ UNCHANGED <<wmVars, dagVars, extVars>>

\* execute, up to the loop: a fresh context, then _process_global_nodes
ExecStart ==
    /\ x_pc = "ready"
    /\ global_variables' = _process_global_nodes(x_nodes, x_input)
    /\ node_outputs' = [n \in Range(IdsOf(x_nodes)) |-> None]
    /\ execution_log' = <<>>
    /\ x_idx' = 1
    /\ x_pc' = "running"
    /\ UNCHANGED <<x_nodes, x_edges, x_iter, x_input, execution_order, final_result,
                   x_error, x_invoked, x_raised>>
    /\ UNCHANGED <<wmVars, dagVars, extVars>>

\* _execute_node on a node of skip_types
ExecSkip ==
    /\ x_pc = "running"
    /\ x_idx <= Len(execution_order)
    /\ NodeOf(x_nodes, execution_order[x_idx]).type \in skip_types
    /\ x_idx' = x_idx + 1
    /\ UNCHANGED <<x_pc, x_nodes, x_edges, x_iter, x_input, execution_order, global_variables,
                   node_outputs, execution_log, final_result, x_error, x_invoked, x_raised>>
    /\ UNCHANGED <<wmVars, dagVars, extVars>>

\* _execute_node on any other node
ExecNode ==
    /\ x_pc = "running"
    /\ x_idx <= Len(execution_order)
    /\ LET node_id == execution_order[x_idx]
           node == NodeOf(x_nodes, node_id)
           input_data == _prepare_node_input(node_id, x_edges, node_outputs, global_variables)
       IN /\ node.type \notin skip_types
          /\ IF node.type \notin Registry
             THEN \* create_node_instance raises NodeCreationError
                  /\ x_pc' = NodeFailure
                  /\ x_error' = node_id
                  /\ x_idx' = IF NodeFailure = "failed" THEN x_idx ELSE x_idx + 1
                  /\ UNCHANGED <<node_outputs, execution_log, x_invoked, x_raised>>
             ELSE \E result \in NodeOutcomes(node, input_data) :
                  /\ x_invoked' = Append(x_invoked, node_id)
                  /\ IF result = Raise
                     THEN /\ x_pc' = NodeFailure
                          /\ x_error' = node_id
                          /\ x_raised' = node_id
                          /\ x_idx' = IF NodeFailure = "failed" THEN x_idx ELSE x_idx + 1
                          /\ UNCHANGED <<node_outputs, execution_log>>
                     ELSE LET ctx == add_node_output(node_outputs, execution_log, node_id, result)
                          IN /\ node_outputs' = ctx.node_outputs
                             /\ execution_log' = ctx.execution_log
                             /\ x_idx' = x_idx + 1
                             /\ UNCHANGED <<x_pc, x_error, x_raised>>
    /\ UNCHANGED <<x_nodes, x_edges, x_iter, x_input, execution_order, global_variables,
                   final_result>>
    /\ UNCHANGED <<wmVars, dagVars, extVars>>

\* execute, after the loop
ExecFinish ==
    /\ x_pc = "running"
    /\ x_idx > Len(execution_order)
    /\ final_result' = _determine_final_result(execution_order, x_nodes, x_edges, node_outputs)
    /\ x_pc' = "done"
    /\ UNCHANGED <<x_nodes, x_edges, x_iter, x_input, execution_order, x_idx, global_variables,
                   node_outputs, execution_log, x_error, x_invoked, x_raised>>
    /\ UNCHANGED <<wmVars, dagVars, extVars>>

NextExec == ExecConstruct \/ ExecStart \/ ExecSkip \/ ExecNode \/ ExecFinish

SpecExec == InitExec /\ [][NextExec]_vars

-----------------------------------------------------------------------------
(* Dispatch: run_published_api and reload_worker over the worker cache *)

\* flow definitions a record can carry; "none" is an empty one
FlowDefinitions == FlowNames \cup {"branch"}

\* what a request body decodes to
Bodies == {"json", "bad_json", "bad_form"}

Record(id, is_active, flow_definition) ==
    [id |-> id, is_active |-> is_active, flow_definition |-> flow_definition]

\* FlowExecutor(flow_json, db_session, user_context): the arguments are kept on the executor
Executor(api, flow, db_session, user_context) ==
    [api |-> api, flow |-> flow, db_session |-> db_session, user_context |-> user_context]

NoExecutor == Executor(0, "none", "", "")

\* the request's own Depends(get_db) session and _build_user_context(...)
DbOf(r) == r
UserOf(r) == r

ParseFails(body) == body \in {"bad_json", "bad_form"}

\* a JSON body that does not decode is logged and left out; any other failure returns {}
_parse_request_data(body) ==
    CASE body = "json" -> "full"
      [] body = "bad_json" -> "query"
      [] body = "bad_form" -> "empty"

ActiveIgnored(rec) == TRUE

\* `if not published_api.is_active: raise HTTPException(403)`
IsActive(rec) == rec.is_active

ForceRemoveAlwaysTrue(aw, api) ==
    [removed |-> "true", workers |-> IF api \in Keys(aw) THEN Pop(aw, api) ELSE aw]

\* WorkerManager.force_remove_worker: what it returns and what it leaves
ForceRemove(aw, api) ==
    IF api \in Keys(aw)
    THEN [removed |-> "true", workers |-> Pop(aw, api)]
    ELSE [removed |-> "false", workers |-> aw]

wmRest == <<worker_lock, pc, req, ret, pcR, current_time, gen, joint, reaped, scn>>

InitDispatch ==
    /\ store = [p \in Paths |->
                    CASE p = "sales" -> Record(1, TRUE, "linear")
                      [] p = "stock" -> Record(2, TRUE, "linear")
                      [] p = "gone" -> NoRecord]
    /\ h_pc = [r \in Requests |-> "new"]
    /\ h_path \in [Requests -> Paths]
    /\ h_body \in [Requests -> Bodies]
    /\ h_api = [r \in Requests |-> NoRecord]
    /\ h_data = [r \in Requests |-> "none"]
    /\ h_exec = [r \in Requests |-> NoExecutor]
    /\ h_status = [r \in Requests |-> 0]
    /\ h_seen = [r \in Requests |-> NoSeen]
    /\ h_acquired = [r \in Requests |-> FALSE]
    /\ h_removed = NoRemoval
    /\ WMOff
    /\ DagOff
    /\ ExecOff
    /\ ShutdownOff
    /\ QueueOff

\* _get_published_api, then the 404 and 403 checks
DispatchLookup(r) ==
    /\ h_pc[r] = "new"
    /\ \E query_ok \in BOOLEAN :
        LET published_api == IF query_ok THEN store[h_path[r]] ELSE NoRecord
        IN /\ h_api' = [h_api EXCEPT ![r] = published_api]
           /\ IF published_api = NoRecord
              THEN /\ h_status' = [h_status EXCEPT ![r] = 404]
                   /\ h_pc' = [h_pc EXCEPT ![r] = "done"]
              ELSE IF ~IsActive(published_api)
              THEN /\ h_status' = [h_status EXCEPT ![r] = 403]
                   /\ h_pc' = [h_pc EXCEPT ![r] = "done"]
              ELSE /\ h_pc' = [h_pc EXCEPT ![r] = "parse"]
                   /\ UNCHANGED h_status
    /\ UNCHANGED <<store, h_path, h_body, h_data, h_exec, h_seen, h_acquired, h_removed>>
    /\ UNCHANGED <<wmVars, dagVars, exVars, sdVars, quVars>>

\* request_data = await _parse_request_data(request)
DispatchParse(r) ==
    /\ h_pc[r] = "parse"
    /\ h_data' = [h_data EXCEPT ![r] = _parse_request_data(h_body[r])]
    /\ h_pc' = [h_pc EXCEPT ![r] = "acquire"]
    /\ UNCHANGED <<store, h_path, h_body, h_api, h_exec, h_status, h_seen, h_acquired,
                   h_removed>>
    /\ UNCHANGED <<wmVars, dagVars, exVars, sdVars, quVars>>

\* manager.get_or_create_worker(published_api, db_session, user_context), under the lock
DispatchAcquire(r) ==
    /\ h_pc[r] = "acquire"
    /\ h_acquired' = [h_acquired EXCEPT ![r] = TRUE]
    /\ LET api == h_api[r].id
           flow == h_api[r].flow_definition
       IN IF api \in Keys(active_workers)
          THEN LET i == IndexOf(active_workers, api) IN
               /\ active_workers' = [active_workers EXCEPT ![i] = update_usage(@)]
               /\ h_exec' = [h_exec EXCEPT ![r] = active_workers[i].executor]
               /\ h_pc' = [h_pc EXCEPT ![r] = "execute"]
               /\ UNCHANGED h_status
          ELSE IF FlowBuilds(flow)
          THEN LET executor == Executor(api, flow, DbOf(r), UserOf(r)) IN
               /\ active_workers' = DictSet(_ensure_capacity(active_workers),
                                            WorkerInfo(api, executor, now))
               /\ h_exec' = [h_exec EXCEPT ![r] = executor]
               /\ h_pc' = [h_pc EXCEPT ![r] = "execute"]
               /\ UNCHANGED h_status
          ELSE /\ active_workers' = _ensure_capacity(active_workers)
               /\ h_status' = [h_status EXCEPT ![r] = 500]
               /\ h_pc' = [h_pc EXCEPT ![r] = "done"]
               /\ UNCHANGED h_exec
    /\ UNCHANGED <<store, h_path, h_body, h_api, h_data, h_seen, h_removed>>
    /\ UNCHANGED <<now, wmRest, dagVars, exVars, sdVars, quVars>>

\* executor.execute(input_data=request_data): the nodes are created with the executor's
\* db_session and run in a context holding the executor's user_context
DispatchExecute(r) ==
    /\ h_pc[r] = "execute"
    /\ h_seen' = [h_seen EXCEPT ![r] = [db_session |-> h_exec[r].db_session,
                                        user_context |-> h_exec[r].user_context]]
    /\ \E ok \in BOOLEAN : h_status' = [h_status EXCEPT ![r] = IF ok THEN 200 ELSE 500]
    /\ h_pc' = [h_pc EXCEPT ![r] = "done"]
    /\ UNCHANGED <<store, h_path, h_body, h_api, h_data, h_exec, h_acquired, h_removed>>
    /\ UNCHANGED <<wmVars, dagVars, exVars, sdVars, quVars>>

\* POST /worker/{api_id}/reload by an admin
ReloadWorker(api) ==
    /\ LET res == ForceRemove(active_workers, api)
       IN /\ active_workers' = res.workers
          /\ h_removed' = [api_id |-> api, removed |-> res.removed]
    /\ UNCHANGED <<store, h_pc, h_path, h_body, h_api, h_data, h_exec, h_status, h_seen,
                   h_acquired>>
    /\ UNCHANGED <<now, wmRest, dagVars, exVars, sdVars, quVars>>

\* "sales" is deactivated or activated; "stock" is published with another flow definition
StoreChange(p) ==
    /\ store[p] # NoRecord
    /\ \/ /\ p = "sales"
          /\ store' = [store EXCEPT ![p].is_active = ~@]
       \/ /\ p = "stock"
          /\ \E f \in FlowDefinitions \ {store[p].flow_definition} :
                 store' = [store EXCEPT ![p].flow_definition = f]
    /\ UNCHANGED <<h_pc, h_path, h_body, h_api, h_data, h_exec, h_status, h_seen,
                   h_acquired, h_removed>>
    /\ UNCHANGED <<wmVars, dagVars, exVars, sdVars, quVars>>

NextDispatch ==
    \/ \E r \in Requests : DispatchLookup(r)
    \/ \E r \in Requests : DispatchParse(r)
    \/ \E r \in Requests : DispatchAcquire(r)
    \/ \E r \in Requests : DispatchExecute(r)
    \/ \E api \in {1, 2} : ReloadWorker(api)
    \/ \E p \in Paths : StoreChange(p)
    \/ Tick

SpecDispatch == InitDispatch /\ [][NextDispatch]_vars

-----------------------------------------------------------------------------
(* Shutdown: shutdown_worker_manager while acquires are in flight *)

InitShutdown ==
    /\ sd_pc = "up"
    /\ WMOff
    /\ DagOff
    /\ ExecOff
    /\ DispatchOff
    /\ QueueOff

\* requests arrive until the shutdown starts
ShutdownCall(c) ==
    /\ sd_pc = "up"
    /\ GetOrCreateCall(c)

\* await manager.stop_scheduler()
ShutdownStop ==
    /\ sd_pc = "up"
    /\ sd_pc' = "stopped"
    /\ UNCHANGED <<wmVars, dagVars, exVars, dpVars, quVars>>

\* await manager.clear_all_workers()
ShutdownClear ==
    /\ sd_pc = "stopped"
    /\ LockFree
    /\ active_workers' = <<>>
    /\ gen' = [a \in Apis |-> 0]
    /\ reaped' = [a \in Apis |-> NoTime]
    /\ scn' = -1
    /\ sd_pc' = "down"
    /\ UNCHANGED <<worker_lock, now, pc, req, ret, pcR, current_time, joint>>
    /\ UNCHANGED <<dagVars, exVars, dpVars, quVars>>

NextShutdown ==
    \/ \E c \in Callers : ShutdownCall(c)
    \/ \E c \in Callers : GetOrCreateLookup(c)
    \/ \E c \in Callers : GetOrCreateCreate(c)
    \/ ShutdownStop
    \/ ShutdownClear

SpecShutdown == InitShutdown /\ [][NextShutdown]_vars

-----------------------------------------------------------------------------
(* Task queue: MaxDPQueueManager over the Redis queues *)

MaxPriority == 1
MaxRetries == 1

\* the task types: one with a registered handler, one without
TaskTypes == {"job", "unknown"}
task_handlers == {"job"}

QueueTask(task_id, task_type, priority) ==
    [task_id |-> task_id, task_type |-> task_type, payload |-> "", priority |-> priority,
     retry_count |-> 0, max_retries |-> MaxRetries]

\* members of equal score are ordered by their JSON text, which starts with the task_id
IdRank(task_id) == CASE task_id = "t1" -> 1 [] task_id = "t2" -> 2 [] task_id = "t3" -> 3

Before(u, t) ==
    \/ u.priority < t.priority
    \/ u.priority = t.priority /\ IdRank(u.task_id) <= IdRank(t.task_id)

ZRangeFirst(zset) == CHOOSE t \in zset : \A u \in zset : Before(t, u)

\* zrevrange(priority_queue, 0, 0): the member of highest score
ZRevRangeFirst(zset) == CHOOSE t \in zset : \A u \in zset : Before(u, t)

\* lpush
LPush(list, value) == <<value>> \o list

\* lrem(list, 1, value): the first element equal to value, from the left
LRem(list, value) ==
    IF \E i \in DOMAIN list : list[i] = value
    THEN LET k == CHOOSE i \in DOMAIN list :
                      list[i] = value /\ \A j \in 1..(i - 1) : list[j] # value
         IN [i \in 1..(Len(list) - 1) |-> IF i < k THEN list[i] ELSE list[i + 1]]
    ELSE list

\* failed_task = task.model_copy(); failed_task.payload["error"] = ...: the copy is shallow,
\* the payload dict is the task's own
WithError(task) == [task EXCEPT !.payload = "error"]

CanRetryInclusive(task) == task.retry_count <= task.max_retries

\* `if task.retry_count < task.max_retries`
CanRetry(task) == task.retry_count < task.max_retries

InitQueue ==
    /\ workers = {"w1"}
    /\ priority_queue = {}
    /\ default_queue = <<>>
    /\ failed_queue = <<>>
    /\ processing_queue = <<>>
    /\ w_pc = [w \in WorkerIds |-> IF w = "w1" THEN "idle" ELSE "off"]
    /\ w_task = [w \in WorkerIds |-> NoTask]
    /\ w_ret = [w \in WorkerIds |-> "none"]
    /\ q_used = {}
    /\ q_calls = [t \in TaskIds |-> 0]
    /\ q_last = -1
    /\ is_running = TRUE
    /\ WMOff
    /\ DagOff
    /\ ExecOff
    /\ DispatchOff
    /\ ShutdownOff

\* what the queue operations leave alone: the other components and the loop's flag
notQueue == <<wmVars, dagVars, exVars, dpVars, sdVars, is_running>>

\* a producer calls enqueue(task, use_priority) with a new task
Enqueue(task_id, task_type, priority, use_priority) ==
    /\ task_id \notin q_used
    /\ q_used' = q_used \cup {task_id}
    /\ LET task == QueueTask(task_id, task_type, priority)
       IN IF use_priority
          THEN /\ priority_queue' = priority_queue \cup {task}
               /\ q_last' = -1
               /\ UNCHANGED default_queue
          ELSE /\ default_queue' = LPush(default_queue, task)
               /\ UNCHANGED <<priority_queue, q_last>>
    /\ UNCHANGED <<workers, failed_queue, processing_queue, w_pc, w_task, w_ret, q_calls>>
    /\ UNCHANGED notQueue

\* dequeue: zrevrange on the sorted set; when that is empty, brpop on the default list
DequeueRead(w) ==
    /\ w \in workers
    /\ w_pc[w] = "idle"
    /\ IF priority_queue # {}
       THEN LET task == ZRevRangeFirst(priority_queue)
            IN /\ w_task' = [w_task EXCEPT ![w] = task]
               /\ w_pc' = [w_pc EXCEPT ![w] = "read"]
               /\ q_last' = task.priority
               /\ UNCHANGED default_queue
       ELSE /\ default_queue # <<>>
            /\ w_task' = [w_task EXCEPT ![w] = default_queue[Len(default_queue)]]
            /\ default_queue' = SubSeq(default_queue, 1, Len(default_queue) - 1)
            /\ w_pc' = [w_pc EXCEPT ![w] = "got"]
            /\ UNCHANGED q_last
    /\ UNCHANGED <<workers, priority_queue, failed_queue, processing_queue, w_ret, q_used,
                   q_calls>>
    /\ UNCHANGED notQueue

\* dequeue: zrem of the member read, and the task is returned
DequeueRemove(w) ==
    /\ w \in workers
    /\ w_pc[w] = "read"
    /\ priority_queue' = priority_queue \ {w_task[w]}
    /\ w_pc' = [w_pc EXCEPT ![w] = "got"]
    /\ UNCHANGED <<workers, default_queue, failed_queue, processing_queue, w_task, w_ret,
                   q_used, q_calls, q_last>>
    /\ UNCHANGED notQueue

\* process_task, up to the call of the handler
ProcessStart(w) ==
    /\ w \in workers
    /\ w_pc[w] = "got"
    /\ LET task == w_task[w]
       IN IF task.task_type \notin task_handlers
          THEN /\ failed_queue' = LPush(failed_queue, WithError(task))
               /\ w_task' = [w_task EXCEPT ![w] = WithError(task)]
               /\ w_ret' = [w_ret EXCEPT ![w] = "false"]
               /\ w_pc' = [w_pc EXCEPT ![w] = "idle"]
               /\ UNCHANGED <<processing_queue, q_calls>>
          ELSE /\ processing_queue' = LPush(processing_queue, task)
               /\ q_calls' = [q_calls EXCEPT ![task.task_id] = @ + 1]
               /\ w_pc' = [w_pc EXCEPT ![w] = "handling"]
               /\ UNCHANGED <<failed_queue, w_task, w_ret>>
    /\ UNCHANGED <<workers, priority_queue, default_queue, q_used, q_last>>
    /\ UNCHANGED notQueue

\* `result = await handler(task)` returns or raises
HandlerEnd(w) ==
    /\ w \in workers
    /\ w_pc[w] = "handling"
    /\ \E raised \in BOOLEAN :
           w_pc' = [w_pc EXCEPT ![w] = IF raised THEN "raised" ELSE "returned"]
    /\ UNCHANGED <<workers, priority_queue, default_queue, failed_queue, processing_queue,
                   w_task, w_ret, q_used, q_calls, q_last>>
    /\ UNCHANGED notQueue

\* process_task after the handler: the success path, or the except branch
ProcessFinish(w) ==
    /\ w \in workers
    /\ w_pc[w] \in {"returned", "raised"}
    /\ LET task == w_task[w]
       IN IF w_pc[w] = "returned"
          THEN /\ processing_queue' = LRem(processing_queue, task)
               /\ w_ret' = [w_ret EXCEPT ![w] = "true"]
               /\ UNCHANGED <<default_queue, failed_queue, w_task>>
          ELSE IF CanRetry(task)
          THEN LET again == [task EXCEPT !.retry_count = @ + 1]
               IN /\ default_queue' = LPush(default_queue, again)
                  /\ processing_queue' = LRem(processing_queue, again)
                  /\ w_task' = [w_task EXCEPT ![w] = again]
                  /\ w_ret' = [w_ret EXCEPT ![w] = "false"]
                  /\ UNCHANGED failed_queue
          ELSE /\ failed_queue' = LPush(failed_queue, WithError(task))
               /\ processing_queue' = LRem(processing_queue, WithError(task))
               /\ w_task' = [w_task EXCEPT ![w] = WithError(task)]
               /\ w_ret' = [w_ret EXCEPT ![w] = "false"]
               /\ UNCHANGED default_queue
    /\ w_pc' = [w_pc EXCEPT ![w] = "idle"]
    /\ UNCHANGED <<workers, priority_queue, q_used, q_calls, q_last>>
    /\ UNCHANGED notQueue

NextQueue ==
    \/ \E task_id \in TaskIds, task_type \in TaskTypes, priority \in 0..MaxPriority,
          use_priority \in BOOLEAN : Enqueue(task_id, task_type, priority, use_priority)
    \/ \E w \in WorkerIds : DequeueRead(w)
    \/ \E w \in WorkerIds : DequeueRemove(w)
    \/ \E w \in WorkerIds : ProcessStart(w)
    \/ \E w \in WorkerIds : HandlerEnd(w)
    \/ \E w \in WorkerIds : ProcessFinish(w)

SpecQueue == InitQueue /\ [][NextQueue]_vars

-----------------------------------------------------------------------------
(* Acquire: get_or_create_worker as one call, from `with self.worker_lock` to its return *)

InitAcquire ==
    /\ WMOff
    /\ DagOff
    /\ ExecOff
    /\ ExtOff

\* one whole call of get_or_create_worker for a record (api, flow)
AcquireCall(c) ==
    /\ \E api \in Apis, flow \in FlowNames :
        LET executor == [api |-> api, flow |-> flow, serial |-> 1] IN
        IF api \in Keys(active_workers)
        THEN LET i == IndexOf(active_workers, api) IN
             /\ active_workers[i].execution_count < MaxCount
             /\ active_workers' = [active_workers EXCEPT ![i] = update_usage(@)]
             /\ ret' = [ret EXCEPT ![c] = active_workers[i].executor]
        ELSE IF FlowBuilds(flow)
        THEN /\ active_workers' = DictSet(_ensure_capacity(active_workers),
                                          WorkerInfo(api, executor, now))
             /\ ret' = [ret EXCEPT ![c] = executor]
        ELSE /\ active_workers' = _ensure_capacity(active_workers)
             /\ ret' = [ret EXCEPT ![c] = BuildError]
    /\ UNCHANGED <<worker_lock, now, pc, req, pcR, current_time, gen, joint, reaped, scn>>
    /\ UNCHANGED <<dagVars, exVars, extVars>>

NextAcquire ==
    \/ \E c \in Callers : AcquireCall(c)
    \/ Tick

SpecAcquire == InitAcquire /\ [][NextAcquire]_vars

-----------------------------------------------------------------------------
(* Task queue with two workers dequeuing from the same Redis queues *)

InitQueue2 ==
    /\ workers = WorkerIds
    /\ priority_queue = {}
    /\ default_queue = <<>>
    /\ failed_queue = <<>>
    /\ processing_queue = <<>>
    /\ w_pc = [w \in WorkerIds |-> "idle"]
    /\ w_task = [w \in WorkerIds |-> NoTask]
    /\ w_ret = [w \in WorkerIds |-> "none"]
    /\ q_used = {}
    /\ q_calls = [t \in TaskIds |-> 0]
    /\ q_last = -1
    /\ is_running = TRUE
    /\ WMOff
    /\ DagOff
    /\ ExecOff
    /\ DispatchOff
    /\ ShutdownOff

\* the producers of this scenario enqueue to the priority queue only
NextQueue2 ==
    \/ \E task_id \in {"t1", "t2"}, task_type \in TaskTypes, priority \in 0..MaxPriority :
          Enqueue(task_id, task_type, priority, TRUE)
    \/ \E w \in WorkerIds : DequeueRead(w)
    \/ \E w \in WorkerIds : DequeueRemove(w)
    \/ \E w \in WorkerIds : ProcessStart(w)
    \/ \E w \in WorkerIds : HandlerEnd(w)
    \/ \E w \in WorkerIds : ProcessFinish(w)

SpecQueue2 == InitQueue2 /\ [][NextQueue2]_vars

-----------------------------------------------------------------------------
(* Worker loop: start_worker / stop_worker of one MaxDPQueueManager *)

InitWorker ==
    /\ WMOff
    /\ DagOff
    /\ ExecOff
    /\ ExtOff

\* start_worker: refused while is_running, otherwise the flag is set and the loop begins
start_worker(w) ==
    /\ w_pc[w] = "off"
    /\ IF is_running
       THEN /\ w_pc' = [w_pc EXCEPT ![w] = "refused"]
            /\ UNCHANGED <<workers, is_running>>
       ELSE /\ is_running' = TRUE
            /\ workers' = workers \cup {w}
            /\ w_pc' = [w_pc EXCEPT ![w] = "idle"]
    /\ UNCHANGED <<priority_queue, default_queue, failed_queue, processing_queue, w_task,
                   w_ret, q_used, q_calls, q_last>>
    /\ UNCHANGED <<wmVars, dagVars, exVars, dpVars, sdVars>>

stop_worker ==
    /\ is_running' = FALSE
    /\ UNCHANGED <<workers, priority_queue, default_queue, failed_queue, processing_queue,
                   w_pc, w_task, w_ret, q_used, q_calls, q_last>>
    /\ UNCHANGED <<wmVars, dagVars, exVars, dpVars, sdVars>>

\* `while self.is_running:` holds and dequeue(timeout=5) reads; a dequeue that times out
\* returns None and the loop is at its test again
WorkerIterate(w) ==
    /\ is_running
    /\ DequeueRead(w)

\* `while self.is_running:` fails and start_worker returns
WorkerExit(w) ==
    /\ w \in workers
    /\ w_pc[w] = "idle"
    /\ ~is_running
    /\ workers' = workers \ {w}
    /\ w_pc' = [w_pc EXCEPT ![w] = "exited"]
    /\ UNCHANGED <<priority_queue, default_queue, failed_queue, processing_queue, w_task,
                   w_ret, q_used, q_calls, q_last>>
    /\ UNCHANGED notQueue

NextWorker ==
    \/ \E task_id \in {"t1", "t2"}, task_type \in TaskTypes, use_priority \in BOOLEAN :
          Enqueue(task_id, task_type, 0, use_priority)
    \/ \E w \in WorkerIds : start_worker(w)
    \/ stop_worker
    \/ \E w \in WorkerIds : WorkerIterate(w)
    \/ \E w \in WorkerIds : WorkerExit(w)
    \/ \E w \in WorkerIds : DequeueRemove(w)
    \/ \E w \in WorkerIds : ProcessStart(w)
    \/ \E w \in WorkerIds : HandlerEnd(w)
    \/ \E w \in WorkerIds : ProcessFinish(w)

SpecWorker == InitWorker /\ [][NextWorker]_vars

\* the event loop resumes every coroutine that can continue, Redis answers and handlers end
FairSpecWorker ==
    /\ SpecWorker
    /\ \A w \in WorkerIds :
          /\ WF_vars(WorkerIterate(w))
          /\ WF_vars(WorkerExit(w))
          /\ WF_vars(DequeueRemove(w))
          /\ WF_vars(ProcessStart(w))
          /\ WF_vars(HandlerEnd(w))
          /\ WF_vars(ProcessFinish(w))

-----------------------------------------------------------------------------
(* C1: in every reachable state the cache holds at most MAX_ACTIVE_APIS entries *)
CacheBound == Len(active_workers) <= MAX_ACTIVE_APIS

\* the cache is full again after an insertion that had to evict (acquire 1, 2, 3)
CacheBoundWitness ==
    /\ Len(active_workers) = MAX_ACTIVE_APIS
    /\ scn = 3

-----------------------------------------------------------------------------
(* C2: between two absences of an api at most one FlowExecutor is constructed for it,  *)
(* a cached api has exactly one, and every executor handed to a caller is that one     *)
(* (the first construction of its period), also for calls in flight together.          *)
IsExecutor(r) == r # NoExec /\ r # BuildError

AtMostOneBuild ==
    /\ \A a \in Apis :
           /\ gen[a] <= 1
           /\ a \in Keys(active_workers) <=> gen[a] = 1
           /\ a \in Keys(active_workers) =>
                  active_workers[IndexOf(active_workers, a)].executor.serial = 1
    /\ \A c \in Callers : IsExecutor(ret[c]) => ret[c].serial = 1

\* two calls for the same absent api were in flight together and both returned an executor
AtMostOneBuildWitness ==
    \E c, d \in Callers :
        /\ c # d
        /\ joint # 0
        /\ IsExecutor(ret[c]) /\ ret[c].api = joint
        /\ IsExecutor(ret[d]) /\ ret[d].api = joint
        /\ pc[c] = "idle" /\ pc[d] = "idle"

-----------------------------------------------------------------------------
(* C3: an acquire of an absent api that finds the cache at capacity removes exactly one  *)
(* entry, one of minimum last_used and, among those, of minimum created_at; an acquire   *)
(* that hits sets last_used to the current time.  With capacity 2, acquire(1),(2),(3)     *)
(* leaves {2,3} and then acquire(2),(4) leaves {2,4} (read between two acquires).         *)
IsLruVictim(aw, i) ==
    \A j \in DOMAIN aw :
        /\ aw[i].last_used <= aw[j].last_used
        /\ aw[j].last_used = aw[i].last_used => aw[i].created_at <= aw[j].created_at

MissStep(c) == pc[c] = "called" /\ pc'[c] = "create"

HitStep(c) == pc[c] = "called" /\ pc'[c] = "idle"

LruStep ==
    \A c \in Callers :
        /\ (MissStep(c) /\ Len(active_workers) >= MAX_ACTIVE_APIS) =>
               \E i \in DOMAIN active_workers :
                   /\ active_workers' = PopIndex(active_workers, i)
                   /\ IsLruVictim(active_workers, i)
        /\ (MissStep(c) /\ Len(active_workers) < MAX_ACTIVE_APIS) =>
               active_workers' = active_workers
        /\ HitStep(c) =>
               /\ Keys(active_workers') = Keys(active_workers)
               /\ active_workers'[IndexOf(active_workers', req[c])].last_used = now

LruExample ==
    (MAX_ACTIVE_APIS = 2 /\ worker_lock = "free") =>
        /\ scn = 3 => Keys(active_workers) = {2, 3}
        /\ scn = 5 => Keys(active_workers) = {2, 4}

LruEviction == [][LruStep]_vars /\ []LruExample

\* the five acquires of the example have been made
LruEvictionWitness == scn = 5 /\ Keys(active_workers) = {2, 4}

-----------------------------------------------------------------------------
(* C4: when cleanup_inactive_workers completes, every entry older than the TTL at the   *)
(* reap's current_time is gone and every other entry is still there, unchanged; an api  *)
(* reaped this way is absent, and the entry a later acquire builds for it has a         *)
(* created_at later than the reaped one's.                                              *)
SweepStep ==
    (pcR = "sweep" /\ pcR' = "idle") =>
        /\ \A i \in DOMAIN active_workers :
               IF current_time - active_workers[i].last_used > API_INACTIVE_TTL_HOURS
               THEN active_workers[i].api_id \notin Keys(active_workers')
               ELSE \E j \in DOMAIN active_workers' : active_workers'[j] = active_workers[i]
        /\ Len(active_workers') <= Len(active_workers)

ReapedRebuilt ==
    \A a \in Apis :
        reaped[a] # NoTime =>
            \/ a \notin Keys(active_workers)
            \/ LET w == active_workers[IndexOf(active_workers, a)] IN
               w.created_at > reaped[a] /\ w.execution_count = 0

IdleReap == [][SweepStep]_vars /\ []ReapedRebuilt

\* an api the reaper removed has been built again
IdleReapWitness ==
    \E a \in Apis : reaped[a] # NoTime /\ a \in Keys(active_workers)

-----------------------------------------------------------------------------
(* Graph notions used to state C5 and C6, defined without the sort *)

Targets(S, edges) == {edges[i].target : i \in {j \in DOMAIN edges : edges[j].source \in S}}

RECURSIVE ReachFrom(_, _, _)
ReachFrom(S, edges, k) ==
    IF k = 0 THEN S ELSE ReachFrom(S \cup Targets(S, edges), edges, k - 1)

HasCycle(edges) ==
    \E u \in NodeIds : u \in ReachFrom(Targets({u}, edges), edges, Len(edges))

WellFormed(nodes, edges) == ~DuplicateIds(nodes) /\ ~DanglingEdge(nodes, edges)

Position(order, n) == CHOOSE i \in DOMAIN order : order[i] = n

(* C5: for a flow with unique node ids, edges between existing nodes and no cycle,      *)
(* topological_sort returns an order that holds every node id exactly once and puts     *)
(* the source of every edge before its target.                                          *)
TopoOrderValid ==
    (d_pc \in {"sorted", "built"} /\ WellFormed(d_nodes, d_edges) /\ ~HasCycle(d_edges)) =>
        /\ d_result.kind = "ok"
        /\ Len(d_result.order) = Len(d_nodes)
        /\ Range(d_result.order) = Range(d_nodes)
        /\ \A i \in DOMAIN d_edges :
               Position(d_result.order, d_edges[i].source)
                   < Position(d_result.order, d_edges[i].target)

\* three nodes, a diamond-free chain with a shortcut, iterated in another order than declared
TopoOrderValidWitness ==
    /\ d_pc = "sorted"
    /\ d_result.kind = "ok"
    /\ d_nodes = <<"A", "B", "C">>
    /\ d_iter = <<"C", "B", "A">>
    /\ d_edges = <<Edge("C", "B"), Edge("B", "A"), Edge("C", "A")>>
    /\ d_result.order = <<"C", "B", "A">>

(* C6: for a well-formed flow whose edges contain a directed cycle (a self-loop too),   *)
(* topological_sort raises the cycle error, FlowExecutor construction fails, and the    *)
(* reported path runs over nodes of the flow along edges of the flow back to its first  *)
(* node; for A->B, B->C, C->A it holds A, B and C.                                      *)
IsDirectedCycle(p, nodes, edges) ==
    /\ Len(p) >= 2
    /\ p[1] = p[Len(p)]
    /\ Range(p) \subseteq Range(nodes)
    /\ \A i \in 1..(Len(p) - 1) : Edge(p[i], p[i + 1]) \in Range(edges)

Triangle == {Edge("A", "B"), Edge("B", "C"), Edge("C", "A")}

CycleRejected ==
    (d_pc \in {"sorted", "built"} /\ WellFormed(d_nodes, d_edges) /\ HasCycle(d_edges)) =>
        /\ d_result.kind = "cycle"
        /\ IsDirectedCycle(d_result.order, d_nodes, d_edges)
        /\ Range(d_edges) = Triangle => Range(d_result.order) = {"A", "B", "C"}
        /\ d_pc = "built" => d_exec.kind = "FlowValidationError"

\* the flow A->B, B->C, C->A was sorted and handed to the FlowExecutor constructor
CycleRejectedWitness ==
    /\ d_pc = "built"
    /\ Range(d_edges) = Triangle
    /\ Len(d_nodes) = 3
    /\ d_result.kind = "cycle"
    /\ d_exec.kind = "FlowValidationError"

-----------------------------------------------------------------------------
(* Notions the executor claims are stated with *)

Count(q, x) == Cardinality({i \in DOMAIN q : q[i] = x})

ExecStarted == x_pc \in {"running", "done", "failed"}

IsUtility(n) == NodeOf(x_nodes, n).type \in skip_types

\* the targets of the edges out of S, not going into or past a merge node
ScopeStep(S) ==
    {x_edges[i].target : i \in {j \in DOMAIN x_edges :
        /\ x_edges[j].source \in S
        /\ NodeOf(x_nodes, x_edges[j].target).type # "maxdp_merge"}}

RECURSIVE ScopeFrom(_, _)
ScopeFrom(S, k) == IF k = 0 THEN S ELSE ScopeFrom(S \cup ScopeStep(S), k - 1)

\* n is a transitive successor of a try_catch node, before the next merge
InTryCatchScope(n) ==
    \E i \in DOMAIN x_nodes :
        /\ x_nodes[i].type = "maxdp_try_catch"
        /\ n \in ScopeFrom(ScopeStep({x_nodes[i].id}), Len(x_nodes))

\* every edge into n comes out of a conditional branch on the handle its output did not select
BranchDisagrees(n) ==
    LET into == {i \in DOMAIN x_edges : x_edges[i].target = n}
    IN /\ into # {}
       /\ \A i \in into :
            /\ NodeOf(x_nodes, x_edges[i].source).type = "maxdp_conditional_branch"
            /\ \/ x_edges[i].sourceHandle = "true"
                  /\ node_outputs[x_edges[i].source] = Bool(FALSE)
               \/ x_edges[i].sourceHandle = "false"
                  /\ node_outputs[x_edges[i].source] = Bool(TRUE)

-----------------------------------------------------------------------------
(* C7: in a completed invocation node_outputs is written exactly once for    *)
(* every non-utility node and never for a utility node, and a node's output  *)
(* is written only after its invoke was called and returned                  *)
ExactlyOnceOutput ==
    ExecStarted =>
        \A i \in DOMAIN x_nodes :
            LET n == x_nodes[i].id
            IN /\ Count(execution_log, n) <= Count(x_invoked, n)
               /\ Count(x_invoked, n) <= 1
               /\ (node_outputs[n] # None) <=> (Count(execution_log, n) = 1)
               /\ x_raised = n => Count(execution_log, n) = 0
               /\ x_pc = "done" =>
                    Count(execution_log, n) = IF IsUtility(n) THEN 0 ELSE 1

\* a completed invocation of a flow with utility nodes and two executed nodes
ExactlyOnceOutputWitness ==
    /\ x_pc = "done"
    /\ \E i \in DOMAIN x_nodes : IsUtility(x_nodes[i].id)
    /\ Len(execution_log) = 2

\* a node outside every try_catch scope raised: the invocation has failed
\* naming it, it was the last node invoked, and nothing was returned
AbortState ==
    (x_raised # NoNode /\ ~InTryCatchScope(x_raised)) =>
        /\ x_pc = "failed"
        /\ x_error = x_raised
        /\ execution_order[x_idx] = x_raised
        /\ x_invoked[Len(x_invoked)] = x_raised
        /\ \A j \in (x_idx + 1)..Len(execution_order) :
               execution_order[j] \notin Range(x_invoked)
        /\ final_result = NoFinal

\* the failing step and every later step leave the outputs as they were
AbortStep ==
    (x_raised' # NoNode /\ ~InTryCatchScope(x_raised')) =>
        /\ node_outputs' = node_outputs
        /\ execution_log' = execution_log

(* C8: when a node outside every try_catch scope raises, the invocation     *)
(* fails with an error naming that node, no node later in the topological   *)
(* order is invoked, and the outputs of earlier nodes are left as they were *)
AbortOnError == [][AbortStep]_vars /\ []AbortState

\* a node raised after an earlier node had written its output, with nodes still to run
AbortOnErrorWitness ==
    /\ x_pc = "failed"
    /\ x_raised # NoNode
    /\ ~InTryCatchScope(x_raised)
    /\ execution_log # <<>>
    /\ x_idx < Len(execution_order)

(* C9: when a node in the scope of a try_catch node raises, the invocation  *)
(* does not fail and a fallback table is written as that node's output      *)
TryCatchFallback ==
    (x_raised # NoNode /\ InTryCatchScope(x_raised)) =>
        /\ x_pc # "failed"
        /\ IsDataFrame(node_outputs[x_raised])

(* C10: a node whose only incoming edges leave conditional branches on the  *)
(* handle that disagrees with the branch's boolean output is never invoked  *)
BranchSuppression ==
    ExecStarted =>
        \A i \in DOMAIN x_nodes :
            BranchDisagrees(x_nodes[i].id) => x_nodes[i].id \notin Range(x_invoked)

-----------------------------------------------------------------------------
(* C11: a cached executor carries no per-request state: the nodes of every
   invocation see the database handle and the user context of the request
   being served, never those of the request that caused the executor to be
   built. *)
PerRequestState ==
    \A r \in Requests :
        h_seen[r] # NoSeen =>
            h_seen[r] = [db_session |-> DbOf(r), user_context |-> UserOf(r)]

-----------------------------------------------------------------------------
(* C13: force_remove_worker(api_id) returns true and removes the entry iff it
   was cached, returns false and changes nothing otherwise, and never touches
   another entry; an acquire that then finds no entry for the api builds an
   entry with execution_count 0, created at the time of that acquire, holding
   the executor built for the acquiring request. *)
ReloadStep ==
    /\ h_pc' = h_pc
    /\ store' = store
    /\ now' = now
    /\ <<h_removed, active_workers>>' # <<h_removed, active_workers>>

OtherEntries(aw, api) == SelectSeq(aw, LAMBDA w : w.api_id # api)

RebuildStep(r) ==
    /\ h_pc[r] = "acquire"
    /\ h_pc'[r] = "execute"
    /\ h_api[r].id \notin Keys(active_workers)

ForceRemoveThenAcquire ==
    [][/\ ReloadStep =>
            LET api == h_removed'.api_id IN
            /\ (h_removed'.removed = "true") <=> (api \in Keys(active_workers))
            /\ (h_removed'.removed = "false") <=> (api \notin Keys(active_workers))
            /\ api \notin Keys(active_workers')
            /\ api \notin Keys(active_workers) => active_workers' = active_workers
            /\ OtherEntries(active_workers', api) = OtherEntries(active_workers, api)
       /\ \A r \in Requests :
            RebuildStep(r) =>
                LET api == h_api[r].id IN
                /\ api \in Keys(active_workers')
                /\ LET w == active_workers'[IndexOf(active_workers', api)] IN
                   /\ w.execution_count = 0
                   /\ w.created_at = now
                   /\ w.last_used = now
                   /\ w.executor = Executor(api, h_api[r].flow_definition, DbOf(r), UserOf(r))
                   /\ h_exec'[r] = w.executor]_vars

ForceRemoveThenAcquireWitness ==
    /\ h_removed.removed = "true"
    /\ h_removed.api_id \in Keys(active_workers)
    /\ LET w == active_workers[IndexOf(active_workers, h_removed.api_id)] IN
       /\ w.execution_count = 0
       /\ w.created_at > 0
       /\ \E r \in Requests : h_pc[r] = "done" /\ h_exec[r].api = w.api_id
                                               /\ h_exec[r] # w.executor

-----------------------------------------------------------------------------
(* C16: a request whose path has no record is answered 404 and a request whose
   record is inactive is answered 403; the rejected request never acquires an
   executor, runs no node and leaves the worker cache as it was, also when an
   executor for that api is cached. *)
Rejected(r) == h_status[r] \in {403, 404}

DispatchGating ==
    /\ [][\A r \in Requests :
            (h_pc[r] = "new" /\ h_pc'[r] = "done") =>
                /\ Rejected(r)'
                /\ active_workers' = active_workers]_vars
    /\ [](\A r \in Requests :
            /\ (h_pc[r] # "new" /\ store[h_path[r]] = NoRecord) => h_status[r] = 404
            /\ (h_pc[r] # "new" /\ h_api[r] = NoRecord) => h_status[r] = 404
            /\ (h_pc[r] # "new" /\ h_api[r] # NoRecord /\ ~h_api[r].is_active)
                   => h_status[r] = 403
            /\ Rejected(r) => /\ h_pc[r] = "done"
                              /\ ~h_acquired[r]
                              /\ h_exec[r] = NoExecutor
                              /\ h_seen[r] = NoSeen)

DispatchGatingWitness ==
    \E r \in Requests :
        /\ h_status[r] = 403
        /\ ~h_acquired[r]
        /\ h_api[r].id \in Keys(active_workers)

-----------------------------------------------------------------------------
(* C17: when decoding the request inputs fails, the dispatch answers 400,
   acquires no executor and runs no node. *)
ParseErrorIs400 ==
    \A r \in Requests :
        (h_data[r] # "none" /\ ParseFails(h_body[r])) =>
            /\ h_pc[r] = "done"
            /\ h_status[r] = 400
            /\ ~h_acquired[r]
            /\ h_seen[r] = NoSeen

-----------------------------------------------------------------------------
(* C12: a build that fails inserts nothing: the cache is as the lookup left
   it and holds no entry for the api, the caller gets the error, the lock is
   free again, no cached entry ever holds an executor of a flow that does not
   build, and an acquire that finds the api absent goes to construction. *)
FailedBuildStep(c) == pc[c] = "create" /\ ret'[c] = BuildError

MissLookupStep(c) ==
    /\ pc[c] = "called"
    /\ pc'[c] # "called"
    /\ req[c] \notin Keys(active_workers)

FailedBuildLeavesNothing ==
    /\ [][\A c \in Callers :
            /\ FailedBuildStep(c) =>
                   /\ active_workers' = active_workers
                   /\ req[c] \notin Keys(active_workers')
                   /\ worker_lock = c
                   /\ worker_lock' = "free"
                   /\ pc'[c] = "idle"
            /\ MissLookupStep(c) => pc'[c] = "create" /\ req'[c] = req[c]]_vars
    /\ [](\A i \in 1..Len(active_workers) :
            /\ active_workers[i].executor.flow # "none"
            /\ active_workers[i].executor # BuildError)

FailedBuildLeavesNothingWitness ==
    \E c \in Callers : \E d \in Callers \ {c} :
        /\ ret[c] = BuildError
        /\ pc[c] = "idle"
        /\ active_workers = <<>>
        /\ pc[d] = "create"
        /\ worker_lock = d

-----------------------------------------------------------------------------
(* C14: the input map passed to a node binds, for every edge into it whose
   source produced an output, the key of that edge (sourceHandle, else
   targetHandle, else the source id) to the source's output; each edge is
   bound separately, also when two edges join the same pair of nodes.  Keys
   that a global variable also names are not considered here. *)
KeyOf(e) ==
    IF e.sourceHandle # NoHandle THEN e.sourceHandle
    ELSE IF e.targetHandle # NoHandle THEN e.targetHandle
    ELSE e.source

Binds(input, key, value) == \E i \in DOMAIN input : input[i].key = key /\ input[i].value = value

HandleRouting ==
    (x_pc = "running" /\ x_idx <= Len(execution_order)) =>
        LET n == execution_order[x_idx]
            input == _prepare_node_input(n, x_edges, node_outputs, global_variables)
        IN NodeOf(x_nodes, n).type \notin skip_types =>
            \A i \in DOMAIN x_edges :
                LET e == x_edges[i] IN
                (/\ e.target = n
                 /\ node_outputs[e.source] # None
                 /\ ~DictHas(global_variables, KeyOf(e)))
                    => Binds(input, KeyOf(e), node_outputs[e.source])

-----------------------------------------------------------------------------
(* C15: a completed invocation returns the output of the only terminal node
   when there is exactly one; otherwise, when the flow has display_results
   nodes, the output of the last of them in execution order; and a map from
   terminal id to output only when there are several terminals and no
   display_results node. *)
Terminals == SelectSeq(execution_order, LAMBDA n : \A i \in DOMAIN x_edges : x_edges[i].source # n)

Displays ==
    SelectSeq(execution_order, LAMBDA n : NodeOf(x_nodes, n).type = "maxdp_display_results")

FinalResultSelection ==
    x_pc = "done" =>
        IF Len(Terminals) = 1
        THEN final_result = [kind |-> "value", value |-> node_outputs[Terminals[1]]]
        ELSE IF Displays # <<>>
        THEN final_result = [kind |-> "value", value |-> node_outputs[Displays[Len(Displays)]]]
        ELSE /\ final_result.kind = "dict"
             /\ final_result.value =
                    [i \in DOMAIN Terminals |->
                        [key |-> Terminals[i], value |-> node_outputs[Terminals[i]]]]

-----------------------------------------------------------------------------
(* C18: once shutdown_worker_manager has completed the cache is empty and
   stays empty: no acquire that was in flight when the shutdown started
   inserts an entry after clear_all_workers.  (No acquire starts after the
   shutdown has started, so every entry is the work of one in flight.) *)
ShutdownDrains == sd_pc = "down" => active_workers = <<>>

-----------------------------------------------------------------------------
(* C19: whenever the priority queue is non-empty a dequeue takes from it,
   whatever the default queue holds: the task it reads has the highest
   priority among the tasks in the priority queue at that moment, whatever
   the order of the enqueues; that task is the one removed and returned;
   and successive dequeues with no priority enqueue in between read tasks of
   non-increasing priority. *)
PriorityReadStep(w) == w_pc[w] = "idle" /\ w_pc'[w] # "idle"

PriorityRemoveStep(w) == w_pc[w] = "read" /\ w_pc'[w] = "got"

PriorityDequeueOrder ==
    [][\A w \in WorkerIds :
        /\ (PriorityReadStep(w) /\ priority_queue # {}) =>
              /\ w_pc'[w] = "read"
              /\ default_queue' = default_queue
              /\ w_task'[w] \in priority_queue
              /\ \A t \in priority_queue : t.priority <= w_task'[w].priority
              /\ q_last # -1 => w_task'[w].priority <= q_last
        /\ PriorityRemoveStep(w) =>
              /\ w_task'[w] = w_task[w]
              /\ priority_queue' = priority_queue \ {w_task[w]}
              /\ default_queue' = default_queue]_vars

\* the task in hand came off the priority queue ahead of one of lower priority, which was
\* enqueued and is still there, while the default queue holds a task too
PriorityDequeueOrderWitness ==
    \E w \in WorkerIds :
        /\ w_pc[w] = "got"
        /\ w_task[w].priority = MaxPriority
        /\ w_task[w].task_id = "t3"
        /\ w_task[w] \notin priority_queue
        /\ \E t \in priority_queue : t.priority < w_task[w].priority
        /\ default_queue # <<>>
        /\ q_last = MaxPriority

-----------------------------------------------------------------------------
(* C20: when the handler raises, process_task returns False and, if
   retry_count < max_retries, puts the task back exactly once with
   retry_count increased by one, otherwise puts it on the failed queue and
   does not put it back; when the handler returns, process_task returns True,
   also on a later attempt; a task's handler is invoked at most
   max_retries + 1 times. *)
Occurrences(list, task_id) == Cardinality({i \in DOMAIN list : list[i].task_id = task_id})

-----------------------------------------------------------------------------
(* C21: an acquire call evicts at most one entry, and only together with the
   insertion of a new entry by that same call; a call that ends with the
   build error leaves the cache exactly as it was before the call. *)
EvictionPairedWithInsert ==
    [][/\ Cardinality(Keys(active_workers) \ Keys(active_workers')) <= 1
       /\ Keys(active_workers) \ Keys(active_workers') # {} =>
              Keys(active_workers') \ Keys(active_workers) # {}
       /\ \A c \in Callers :
              (ret[c] # BuildError /\ ret'[c] = BuildError) =>
                  active_workers' = active_workers]_vars

-----------------------------------------------------------------------------
(* C22: topological_sort seeds its queue with the nodes of in-degree zero in
   declaration order, so the order it returns is the one fixed by the nodes
   list and the edges list alone: every run on the same lists, in whatever
   process, returns that order. *)
DeclarationSeeded(nodes, edges) == topological_sort(nodes, edges, nodes, nodes)

DeterministicOrder ==
    (d_pc # "input" /\ d_pc # "off" /\ d_result.kind = "ok") =>
        d_result.order = DeclarationSeeded(d_nodes, d_edges).order

-----------------------------------------------------------------------------
(* C23: within one execute call the nodes are visited in exactly the order
   computed at construction: the order does not change, the nodes invoked so
   far are the non-utility nodes of the visited prefix in that order, and a
   node is invoked only after every node with an edge into it has been
   visited and, unless it is a utility node, has its output recorded. *)
Visited == {execution_order[j] : j \in 1..(x_idx - 1)}

InvokeStep == Len(x_invoked') = Len(x_invoked) + 1

ObservationOrder ==
    /\ [][/\ ExecStarted => execution_order' = execution_order
          /\ InvokeStep =>
               LET n == x_invoked'[Len(x_invoked')] IN
               /\ n = execution_order[x_idx]
               /\ x_invoked' = Append(x_invoked, n)
               /\ \A i \in DOMAIN x_edges :
                     x_edges[i].target = n =>
                        LET u == x_edges[i].source IN
                        /\ u \in Visited
                        /\ ~IsUtility(u) => /\ Count(execution_log, u) = 1
                                            /\ node_outputs[u] # None]_vars
    /\ [](ExecStarted =>
            /\ \A n \in Visited : IsUtility(n) <=> n \notin Range(x_invoked)
            /\ \A i, j \in DOMAIN x_invoked :
                  i < j => Position(execution_order, x_invoked[i])
                             < Position(execution_order, x_invoked[j])
            /\ \A i \in DOMAIN x_invoked : Position(execution_order, x_invoked[i]) <= x_idx)

\* a flow declared sink first has run source first
ObservationOrderWitness ==
    /\ x_pc = "done"
    /\ x_nodes = ReversedFlow.nodes
    /\ x_invoked = <<"S", "X", "D">>
    /\ execution_log = <<"S", "X", "D">>

-----------------------------------------------------------------------------
(* C24: global variables never shadow edge inputs: in the input map prepared
   for a node, a key bound from an incoming edge keeps the output of the
   upstream node also when global_variables holds the same key. *)
GlobalsNeverShadow ==
    (x_pc = "running" /\ x_idx <= Len(execution_order)) =>
        LET n == execution_order[x_idx]
            input == _prepare_node_input(n, x_edges, node_outputs, global_variables)
        IN NodeOf(x_nodes, n).type \notin skip_types =>
            \A i \in DOMAIN x_edges :
                LET e == x_edges[i] IN
                (/\ e.target = n
                 /\ node_outputs[e.source] # None
                 /\ DictHas(global_variables, KeyOf(e)))
                    => /\ Binds(input, KeyOf(e), node_outputs[e.source])
                       /\ Cardinality({k \in DOMAIN input : input[k].key = KeyOf(e)}) = 1

-----------------------------------------------------------------------------
(* C25: building a FlowExecutor for a flow that holds a node whose type is
   not in the node registry fails with a validation error: no executor for
   such a flow exists and no node of such a flow is ever executed. *)
HasUnknownType(nodes) ==
    \E i \in DOMAIN nodes : nodes[i].type \notin (Registry \cup skip_types)

UnknownTypeRejected ==
    (x_pc \notin {"off", "new"} /\ HasUnknownType(x_nodes)) =>
        /\ x_pc = "invalid"
        /\ x_invoked = <<>>

-----------------------------------------------------------------------------
(* C26: for an acyclic flow (unique ids, edges between existing nodes)
   find_execution_groups returns levels that partition the node set, with no
   empty level, the source of every edge in a strictly earlier level than its
   target and every node in the earliest level its predecessors allow; for a
   cyclic flow it ends with the cycle error. *)
LevelOf(groups, n) == CHOOSE k \in DOMAIN groups : n \in Range(groups[k])

Predecessors(edges, n) == {edges[i].source : i \in {j \in DOMAIN edges : edges[j].target = n}}

LevelExtraction ==
    (d_pc = "grouped" /\ WellFormed(d_nodes, d_edges)) =>
        IF HasCycle(d_edges)
        THEN d_groups.kind = "cycle"
        ELSE LET groups == d_groups.groups IN
             /\ d_groups.kind = "ok"
             /\ \A k \in DOMAIN groups : groups[k] # <<>>
             /\ \A n \in Range(d_nodes) :
                   Cardinality({k \in DOMAIN groups :
                                   \E i \in DOMAIN groups[k] : groups[k][i] = n}) = 1
             /\ \A k \in DOMAIN groups :
                   /\ Range(groups[k]) \subseteq Range(d_nodes)
                   /\ Cardinality(Range(groups[k])) = Len(groups[k])
             /\ \A i \in DOMAIN d_edges :
                   LevelOf(groups, d_edges[i].source) < LevelOf(groups, d_edges[i].target)
             /\ \A n \in Range(d_nodes) :
                   LevelOf(groups, n) =
                       IF Predecessors(d_edges, n) = {} THEN 1
                       ELSE 1 + CHOOSE m \in 1..Len(groups) :
                                  /\ \E u \in Predecessors(d_edges, n) : LevelOf(groups, u) = m
                                  /\ \A u \in Predecessors(d_edges, n) : LevelOf(groups, u) <= m

\* three nodes in two levels, two of them side by side, joined by parallel edges
LevelExtractionWitness ==
    /\ d_pc = "grouped"
    /\ d_groups.kind = "ok"
    /\ Len(d_nodes) = 3
    /\ Len(d_groups.groups) = 2
    /\ Len(d_groups.groups[1]) = 2
    /\ Len(d_edges) = 3

-----------------------------------------------------------------------------
(* C28: when process_task has returned for a task with a registered handler,
   the entry it pushed onto the processing list is gone again, so the
   processing list is empty whenever no worker is inside process_task. *)
InProcessTask(w) == w_pc[w] \in {"handling", "returned", "raised"}

ProcessingQueueCleanup ==
    (\A w \in workers : ~InProcessTask(w)) => processing_queue = <<>>

-----------------------------------------------------------------------------
(* C29: with several workers dequeuing concurrently, a task enqueued once to
   the priority queue is returned by at most one dequeue call: no two workers
   hold the same task, never yet handled, as the result of their dequeue. *)
AtMostOnceDelivery ==
    \A a \in workers, b \in workers :
        (/\ a # b
         /\ w_pc[a] = "got"
         /\ w_pc[b] = "got"
         /\ q_calls[w_task[a].task_id] = 0) => w_task[a] # w_task[b]

-----------------------------------------------------------------------------
(* C30: the executor that get_or_create_worker returned to a request was built
   from the flow_definition of the PublishedAPI record passed to that call,
   also when the stored record changed since the cached entry was built. *)
CacheFreshness ==
    \A r \in DOMAIN h_pc :
        h_pc[r] = "execute" => h_exec[r].flow = h_api[r].flow_definition

-----------------------------------------------------------------------------
(* C27: a start_worker call made while a loop of the manager is still running
   starts no second loop, also after stop_worker was called: the loop that
   was stopped exits after the iteration in progress. *)
NoSecondLoop ==
    [][\A w \in WorkerIds : (workers # {} /\ w \notin workers) => w \notin workers']_vars

\* the liveness part of C27: while the worker is running, a task on the default list
\* whose task_type has a handler is eventually passed to the handler
OnDefault(task_id, retry_count) ==
    \E i \in DOMAIN default_queue :
        /\ default_queue[i].task_id = task_id
        /\ default_queue[i].retry_count = retry_count
        /\ default_queue[i].task_type \in task_handlers

Handling(task_id, retry_count) ==
    \E w \in workers :
        /\ w_pc[w] = "handling"
        /\ w_task[w].task_id = task_id
        /\ w_task[w].retry_count = retry_count

DefaultTaskHandled ==
    \A task_id \in {"t1", "t2"}, retry_count \in 0..MaxRetries :
        OnDefault(task_id, retry_count) ~> (Handling(task_id, retry_count) \/ ~is_running)

=============================================================================
